---- MODULE Spec2Model ----
(***************************************************************************)
(* Evaluation pipeline of the harness: prompt strategy, prompt generators, *)
(* the batch inference client, the response parsers, the metrics and the   *)
(* evaluators with their configuration.                                    *)
(*                                                                         *)
(* Python dicts are functions with a string domain, str values are TLA+    *)
(* strings (f-strings are \o concatenations), lists are sequences.  The    *)
(* text a regular expression scans is a sequence of one-character strings. *)
(***************************************************************************)
EXTENDS Integers, Sequences, FiniteSets, TLC

VARIABLES
  kind,               \* "single" (SinglePromptGenerator) | "fewshot" (FewShotPromptGenerator)
  n_shots,            \* FewShotPromptGenerator.n_shots (0 for the plain generator)
  data,               \* PromptGenerator.data
  current_index,      \* PromptGenerator.current_index
  few_shot_examples,  \* FewShotPromptGenerator.few_shot_examples
  ret,                \* the last generator call and how it ended
  file,               \* history: the records parse_jsonl returned in the last load_data
  emitted,            \* history: the items __next__ returned since the last __iter__/load_data
  firstPass,          \* history: per index, the item first returned since the last load_data
  batch_size,         \* BatchModelClient.batch_size
  max_tokens,         \* process_dataset argument
  deterministic,      \* process_dataset argument
  pc,                 \* where process_dataset stands
  results,            \* process_dataset: results
  current_batch,      \* process_dataset: current_batch
  batch_results,      \* _process_batch: results
  final,              \* process_dataset is in its `if current_batch:` tail
  sent,               \* history: every HTTP request with the outcome it met
  parser,             \* the ResponseParser at hand: its class and constructor arguments
  raw_response,       \* the text handed to parse
  parsed,             \* how parse ended: its return value or the exception it raised
  evaluator,          \* the Evaluator / MultiMetricEvaluator at hand (its parser is `parser`)
  metric,             \* the Metric whose calculate is called directly
  call,               \* the evaluation method that was called
  dataset,            \* the argument of evaluate_dataset / evaluate_response
  handed,             \* history: the list as it was handed to the first calculate
  processed_results,  \* that list as it stands (metrics may write to its records)
  evaluation,         \* how the call ended: its return value or the exception it raised
  caller_instruction, \* the instruction handed to OptionsPromptStrategy.process
  passed_inputs,      \* history: the caller's inputs dict as it was when process was called
  caller_inputs,      \* the caller's inputs dict as it stands
  processed_prompt,   \* how process ended: the prompt or the exception it raised
  output_dir,         \* AbstractEvaluator.output_dir
  given,              \* history: the arguments of the last constructor or configuration call
  saved               \* the files the last save_evaluation opened for writing

genVars == <<kind, n_shots, data, current_index, few_shot_examples, ret, file,
             emitted, firstPass>>
clientVars == <<batch_size, max_tokens, deterministic, pc, results, current_batch,
                batch_results, final, sent>>
parseVars == <<parser, raw_response, parsed>>
evalVars == <<evaluator, metric, call, dataset, handed, processed_results, evaluation>>
strategyVars == <<caller_instruction, passed_inputs, caller_inputs, processed_prompt>>
configVars == <<output_dir, given, saved>>
vars == <<genVars, clientVars, parseVars, evalVars, strategyVars, configVars>>

(***************************************************************************)
(* Bounds of the model.                                                    *)
(***************************************************************************)
MaxRecords == 5     \* longest JSONL file
MaxRun == 3         \* longest file handed to a process_dataset run
MaxShots == 3       \* largest n_shots
MaxBatch == 2       \* largest batch_size

MaxTokensChoices == {3, 512}   \* max_tokens on either side of the test of line 179

NoneVal == "<None>"   \* Python's None where a str may stand

(***************************************************************************)
(* Records of a dataset file, shaped as MmluCsvToJsonlConverter.process_row *)
(* writes them: record i of a file carries the question q<i>, two options  *)
(* and the answer letter i.  A record's meta is a mapping with a domain, a *)
(* mapping without one, or missing.                                        *)
(***************************************************************************)
Letters == <<"A", "B", "C", "D", "E", "F", "G", "H", "I", "J">>
LowerLetters == <<"a", "b", "c", "d", "e", "f", "g", "h", "i", "j">>

Lit(s) == [lit |-> s]
Field(name) == [field |-> name]
\* the instruction the converter writes into every record, shortened
Instruction ==
  <<Lit("Question on "), Field("subject"), Lit(".\n"), Field("text"), Lit("\n"),
    Field("options"), Lit("\nThe answer is:")>>

MetaKinds == {"domain", "nodomain", "absent"}

Record(i, mk) ==
  LET x == "x" \o ToString(i)
      y == "y" \o ToString(i)
      base == [instruction |-> Instruction,
               inputs |-> [text |-> "q" \o ToString(i),
                           subject |-> "dom" \o ToString(i % 2),
                           options |-> "A " \o x \o "\nB " \o y,
                           option_a |-> x,
                           option_b |-> y],
               output |-> "(" \o Letters[i] \o ")"]
  IN CASE mk = "domain" -> base @@ [meta |-> [domain |-> "dom" \o ToString(i % 2)]]
       [] mk = "nodomain" -> base @@ [meta |-> [id |-> ToString(i)]]
       [] OTHER -> base

\* the files parse_jsonl reads: up to MaxRecords records, at most one of them
\* without a meta.domain
Files ==
  UNION {{[i \in 1..n |-> Record(i, mks[i])] :
            mks \in {m \in [1..n -> MetaKinds] :
                       \A i, j \in 1..n : (m[i] # "domain" /\ m[j] # "domain") => i = j}} :
         n \in 0..MaxRecords}

\* the files of a process_dataset run
RunFiles == {f \in Files : Len(f) <= MaxRun}

(***************************************************************************)
(* str.join                                                                *)
(***************************************************************************)
RECURSIVE Join(_, _)
Join(sep, parts) ==
  IF parts = <<>> THEN ""
  ELSE IF Len(parts) = 1 THEN parts[1]
  ELSE parts[1] \o sep \o Join(sep, Tail(parts))

(***************************************************************************)
(* OptionsPromptStrategy.process                                           *)
(***************************************************************************)
OptionLines(inputs_copy) ==
  LET present == {k \in 1..Len(LowerLetters) : ("option_" \o LowerLetters[k]) \in DOMAIN inputs_copy}
      RECURSIVE Lines(_)
      Lines(k) ==
        IF k > Len(LowerLetters) THEN <<>>
        ELSE IF k \in present
          THEN <<Letters[k] \o ". " \o inputs_copy["option_" \o LowerLetters[k]]>> \o Lines(k + 1)
          ELSE Lines(k + 1)
  IN Lines(1)

\* instruction.format(**mapping): the text, or KeyError on a placeholder the mapping lacks
Format(instruction, mapping) ==
  IF \E k \in 1..Len(instruction) :
       "field" \in DOMAIN instruction[k] /\ instruction[k].field \notin DOMAIN mapping
  THEN [ok |-> FALSE, error |-> "KeyError"]
  ELSE [ok |-> TRUE,
        text |-> Join("", [k \in 1..Len(instruction) |->
                            IF "field" \in DOMAIN instruction[k]
                            THEN mapping[instruction[k].field]
                            ELSE instruction[k].lit])]

\* a dict object at hand: `value` is its content, `aliases` tells whether it is the
\* very object the caller holds
DictAlias(d) == [aliases |-> TRUE, value |-> d]
\* dict.copy(): a new object with the same items
DictCopy(d) == [aliases |-> FALSE, value |-> d]

\* d[key] = value
SetItemIfAbsent(d, key, value) == d @@ (key :> value)
SetItem(d, key, value) == (key :> value) @@ d

\* process(instruction, inputs): how it ends, and the caller's inputs after it
ProcessCall(instruction, inputs) ==
  LET inputs_copy == DictCopy(inputs)
      options == OptionLines(inputs_copy.value)
      merged == SetItem(inputs_copy.value, "options", Join("\n", options))
  IN [result |-> Format(instruction, merged),
      inputs |-> IF inputs_copy.aliases THEN merged ELSE inputs]

Process(instruction, inputs) == ProcessCall(instruction, inputs).result

(***************************************************************************)
(* Prompt generators                                                       *)
(***************************************************************************)
\* FewShotPromptGenerator._format_example
FormatExample(item, include_answer) ==
  LET formatted_prompt == Process(item.instruction, item.inputs)
  IN IF ~formatted_prompt.ok THEN formatted_prompt
     ELSE IF include_answer
       THEN [ok |-> TRUE,
             text |-> "<client>\n" \o formatted_prompt.text
                      \o "\n<client>\n<model>\n(" \o item.output \o ")\n<model>"]
       ELSE [ok |-> TRUE,
             text |-> "<client>\n" \o formatted_prompt.text \o "\n<client>\n<model>"]

\* FewShotPromptGenerator.generate_prompt
FewShotPrompt(examples, item) ==
  LET few_shot_prompts == [k \in 1..Len(examples) |-> FormatExample(examples[k], TRUE)]
      current_prompt == FormatExample(item, FALSE)
  IN IF (\E k \in 1..Len(examples) : ~few_shot_prompts[k].ok) \/ ~current_prompt.ok
     THEN [ok |-> FALSE, error |-> "KeyError"]
     ELSE [ok |-> TRUE,
           text |-> Join("\n\n", [k \in 1..Len(examples) + 1 |->
                                   IF k <= Len(examples) THEN few_shot_prompts[k].text
                                   ELSE current_prompt.text])]

\* generate_prompt of the generator at hand
GeneratePrompt(item) ==
  IF kind = "fewshot" THEN FewShotPrompt(few_shot_examples, item)
  ELSE Process(item.instruction, item.inputs)

\* the dict __next__ builds (lines 42-47); the record has a meta mapping
NextResult(item, prompt) ==
  [index |-> current_index,
   prompt |-> prompt,
   domain |-> IF "domain" \in DOMAIN item.meta THEN item.meta.domain ELSE "",
   output |-> item.output]

Returned(op, result) == [op |-> op, result |-> result]

GenErrors == {"AttributeError", "KeyError", "ValueError"}

\* PromptGenerator.load_data
BaseLoadData(f) ==
  /\ data' = f
  /\ current_index' = 0

\* the test of FewShotPromptGenerator.load_data (line 83)
TooFewRecordsStrict(f) == Len(f) < n_shots
TooFewRecords(f) == Len(f) <= n_shots

\* load_data of the generator at hand; f is what parse_jsonl returns
LoadData(f) ==
  /\ file' = f
  /\ emitted' = <<>>
  /\ firstPass' = <<>>
  /\ UNCHANGED <<kind, n_shots>>
  /\ IF kind = "single"
     THEN /\ BaseLoadData(f)
          /\ ret' = Returned("load_data", "ok")
          /\ UNCHANGED few_shot_examples
     ELSE IF TooFewRecords(f)
       THEN \* super().load_data has run, then ValueError is raised
            /\ BaseLoadData(f)
            /\ ret' = Returned("load_data", "ValueError")
            /\ UNCHANGED few_shot_examples
       ELSE /\ few_shot_examples' = SubSeq(f, 1, n_shots)
            /\ data' = SubSeq(f, n_shots + 1, Len(f))
            /\ current_index' = 0
            /\ ret' = Returned("load_data", "ok")

IterKeepsCursor ==
  /\ emitted' = <<>>
  /\ ret' = Returned("__iter__", "ok")
  /\ UNCHANGED <<kind, n_shots, data, current_index, few_shot_examples, file, firstPass>>

\* PromptGenerator.__iter__
Iter ==
  /\ current_index' = 0
  /\ emitted' = <<>>
  /\ ret' = Returned("__iter__", "ok")
  /\ UNCHANGED <<kind, n_shots, data, few_shot_examples, file, firstPass>>

\* PromptGenerator.__next__
GenNext ==
  /\ UNCHANGED <<kind, n_shots, data, few_shot_examples, file>>
  /\ IF current_index >= Len(data)
     THEN /\ ret' = Returned("__next__", "StopIteration")
          /\ UNCHANGED <<current_index, emitted, firstPass>>
     ELSE LET item == data[current_index + 1]
              prompt == GeneratePrompt(item)
          IN IF ~prompt.ok
             THEN /\ ret' = Returned("__next__", prompt.error)
                  /\ UNCHANGED <<current_index, emitted, firstPass>>
             ELSE IF "meta" \notin DOMAIN item
               THEN \* item.get("meta") is None
                    /\ ret' = Returned("__next__", "AttributeError")
                    /\ UNCHANGED <<current_index, emitted, firstPass>>
               ELSE LET result == NextResult(item, prompt.text)
                    IN /\ current_index' = current_index + 1
                       /\ emitted' = Append(emitted, result)
                       /\ firstPass' = IF current_index < Len(firstPass) THEN firstPass
                                       ELSE Append(firstPass, result)
                       /\ ret' = Returned("__next__", "item")

(***************************************************************************)
(* A caller driving a generator directly.                                  *)
(***************************************************************************)
UserLoad == \E f \in Files : LoadData(f) /\ UNCHANGED <<clientVars, parseVars, evalVars, strategyVars, configVars>>
UserIter == Iter /\ UNCHANGED <<clientVars, parseVars, evalVars, strategyVars, configVars>>
UserNext == GenNext /\ UNCHANGED <<clientVars, parseVars, evalVars, strategyVars, configVars>>

InitGen ==
  /\ \/ kind = "single" /\ n_shots = 0
     \/ kind = "fewshot" /\ n_shots \in 1..MaxShots
  /\ data = <<>>
  /\ current_index = 0
  /\ few_shot_examples = <<>>
  /\ ret = Returned("__init__", "ok")
  /\ file = <<>>
  /\ emitted = <<>>
  /\ firstPass = <<>>

\* no evaluator or metric has been built, no evaluation method called
NoEvaluator == [class |-> "none"]
NoMetric == [class |-> "none"]
Pending == [status |-> "pending"]

InitNoEvaluator ==
  /\ evaluator = NoEvaluator /\ metric = NoMetric /\ call = "none"
  /\ dataset = <<>> /\ handed = <<>> /\ processed_results = <<>>
  /\ evaluation = Pending

\* process has not been called
InitNoStrategy ==
  /\ caller_instruction = <<>> /\ passed_inputs = <<>> /\ caller_inputs = <<>>
  /\ processed_prompt = Pending

\* no output directory is configured, nothing was saved
InitNoConfig ==
  /\ output_dir = [none |-> TRUE] /\ given = <<>> /\ saved = {}

\* no parser has been built
InitNoParser ==
  /\ parser = [class |-> "none"]
  /\ raw_response = <<>>
  /\ parsed = [status |-> "pending"]

InitClient ==
  /\ batch_size \in 1..MaxBatch
  /\ max_tokens = 512
  /\ deterministic = TRUE
  /\ pc = "idle"
  /\ results = <<>>
  /\ current_batch = <<>>
  /\ batch_results = <<>>
  /\ final = FALSE
  /\ sent = <<>>


(***************************************************************************)
(* Inference client.  An HTTP call ends in an exception (endpoint          *)
(* unreachable, raise_for_status on a non-2xx status, response.json() on a *)
(* malformed body) or in the JSON object the server sent.                  *)
(***************************************************************************)
Failed(msg) == [kind |-> "exc", msg |-> msg]
Json(body) == [kind |-> "json", body |-> body]

TransportErrors == {"ConnectionError", "HTTPError: 500", "JSONDecodeError"}
Bodies == {[letter |-> "A"], [output |-> "(B)"], [error |-> "busy"]}
Outcomes == {Failed(m) : m \in TransportErrors} \cup {Json(b) : b \in Bodies}

GenerateUrl == "/api/v1/generate"
DetermUrl == "/api/v1/generate-determ"

PyNone == [none |-> TRUE]
PyDict(d) == [none |-> FALSE, value |-> d]
PyValue(v) == [none |-> FALSE, value |-> v]

\* lines 72-77 and 218-223: {"letter": x} becomes {"output": x}, anything else passes
Normalise(result_json) ==
  IF "letter" \in DOMAIN result_json THEN [output |-> result_json.letter] ELSE result_json

\* ModelClient.send_request: what it returns when the HTTP call ends in `outcome`
SendRequest(outcome) ==
  IF outcome.kind = "exc" THEN PyNone   \* except: print(e), and the function falls off its end
  ELSE PyDict(Normalise(outcome.body))

\* BatchModelClient._send_determ_request
SendDetermRequest(outcome) ==
  IF outcome.kind = "exc" THEN PyDict([error |-> outcome.msg])
  ELSE PyDict(Normalise(outcome.body))

\* the branch of _process_batch (line 179)
UseDetermBelowThree(det, mt) == det /\ mt < 3
UseDeterm(det, mt) == det /\ mt <= 3

BatchEntryWrongKey(item) ==
  [index |-> item.index,
   prompt |-> item.prompt,
   domain |-> IF "domain" \in DOMAIN item THEN item.domain ELSE "",
   expected_output |-> IF "expected_output" \in DOMAIN item THEN item.expected_output ELSE ""]

\* the dict process_dataset appends to current_batch (lines 132-137)
BatchEntry(item) ==
  [index |-> item.index,
   prompt |-> item.prompt,
   domain |-> IF "domain" \in DOMAIN item THEN item.domain ELSE "",
   expected_output |-> IF "output" \in DOMAIN item THEN item.output ELSE ""]

\* the dict _process_batch builds (lines 186-193); response is a dict
BatchRow(item, response) ==
  [index |-> item.index,
   prompt |-> item.prompt,
   domain |-> IF "domain" \in DOMAIN item THEN item.domain ELSE "",
   expected_output |-> IF "expected_output" \in DOMAIN item THEN item.expected_output ELSE "",
   model_output |-> IF "output" \in DOMAIN response THEN response.output ELSE "",
   error |-> IF "error" \in DOMAIN response THEN response.error ELSE NoneVal]

\* the item _process_batch's loop stands at
BatchItem == current_batch[Len(batch_results) + 1]

\* process_dataset up to its first next(): results = [], current_batch = [] and
\* the for statement's iter(generator)
ProcessDataset ==
  /\ pc = "idle"
  /\ \E mt \in MaxTokensChoices, det \in BOOLEAN :
       /\ max_tokens' = mt
       /\ deterministic' = det
  /\ Iter
  /\ results' = <<>>
  /\ current_batch' = <<>>
  /\ pc' = "loop"
  /\ UNCHANGED <<batch_size, batch_results, final, sent, parseVars, evalVars, strategyVars, configVars>>

\* one turn of `for item in generator`: next(generator), the append, and the
\* test that hands the batch to _process_batch; at StopIteration the tail
\* `if current_batch:`; an exception of __next__ leaves process_dataset
ClientNext ==
  /\ pc = "loop"
  /\ GenNext
  /\ IF ret'.result = "item"
     THEN LET item == emitted'[Len(emitted')]
          IN /\ current_batch' = Append(current_batch, BatchEntry(item))
             /\ pc' = IF Len(current_batch') >= batch_size THEN "batch" ELSE "loop"
             /\ UNCHANGED final
     ELSE IF ret'.result = "StopIteration"
       THEN /\ pc' = IF current_batch # <<>> THEN "batch" ELSE "done"
            /\ final' = TRUE
            /\ UNCHANGED current_batch
       ELSE /\ pc' = "aborted"
            /\ UNCHANGED <<current_batch, final>>
  /\ UNCHANGED <<batch_size, max_tokens, deterministic, results, batch_results, sent,
                 parseVars, evalVars, strategyVars, configVars>>

\* one turn of _process_batch's loop: the blocking request for the item and
\* the row built from its response; after the batch's last item the return to
\* process_dataset (results.extend, current_batch = [])
ClientSend ==
  /\ pc = "batch"
  /\ \E outcome \in Outcomes :
       LET item == BatchItem
           determ == UseDeterm(deterministic, max_tokens)
           response == IF determ THEN SendDetermRequest(outcome) ELSE SendRequest(outcome)
       IN /\ sent' = Append(sent, [url |-> IF determ THEN DetermUrl ELSE GenerateUrl,
                                   prompt |-> item.prompt,
                                   outcome |-> outcome])
          /\ IF response.none
             THEN \* response.get on None: AttributeError leaves process_dataset
                  /\ pc' = "aborted"
                  /\ UNCHANGED <<results, current_batch, batch_results>>
             ELSE LET rows == Append(batch_results, BatchRow(item, response.value))
                  IN IF Len(rows) = Len(current_batch)
                     THEN /\ results' = results \o rows
                          /\ current_batch' = <<>>
                          /\ batch_results' = <<>>
                          /\ pc' = IF final THEN "done" ELSE "loop"
                     ELSE /\ batch_results' = rows
                          /\ UNCHANGED <<results, current_batch, pc>>
  /\ UNCHANGED <<genVars, batch_size, max_tokens, deterministic, final, parseVars, evalVars, strategyVars, configVars>>

\* the script's single load before the run
FirstLoad ==
  /\ pc = "idle"
  /\ ret.op = "__init__"
  /\ \E f \in RunFiles : LoadData(f)
  /\ UNCHANGED <<clientVars, parseVars, evalVars, strategyVars, configVars>>

Init == InitGen /\ InitClient /\ InitNoParser /\ InitNoEvaluator /\ InitNoStrategy /\ InitNoConfig
Next == FirstLoad \/ ProcessDataset \/ ClientNext \/ ClientSend
Spec == Init /\ [][Next]_vars

InitGenOnly ==
  /\ InitGen /\ InitClient /\ batch_size = 1 /\ InitNoParser /\ InitNoEvaluator
  /\ InitNoStrategy /\ InitNoConfig
NextGen == UserLoad \/ UserIter \/ UserNext
SpecGen == InitGenOnly /\ [][NextGen]_vars

(***************************************************************************)
(* Response parsers.  A text is a sequence of characters; an ASCII         *)
(* character stands for itself and any other one is named by its code      *)
(* point ("U+0130").                                                       *)
(***************************************************************************)
MaxFrags == 3       \* most fragments a model response is put together from
MaxRegexLen == 3    \* longest text handed to RegexParser

Lower26 == <<"a", "b", "c", "d", "e", "f", "g", "h", "i", "j", "k", "l", "m",
             "n", "o", "p", "q", "r", "s", "t", "u", "v", "w", "x", "y", "z">>
Upper26 == <<"A", "B", "C", "D", "E", "F", "G", "H", "I", "J", "K", "L", "M",
             "N", "O", "P", "Q", "R", "S", "T", "U", "V", "W", "X", "Y", "Z">>
\* the Cyrillic letters of the cue word: o, t, v, e
CyrLower == <<"U+043E", "U+0442", "U+0432", "U+0435">>
CyrUpper == <<"U+041E", "U+0422", "U+0412", "U+0415">>
DottedCapitalI == "U+0130"
DotlessSmallI == "U+0131"

InSeq(c, seq) == \E k \in 1..Len(seq) : seq[k] = c
IndexOf(c, seq) == CHOOSE k \in 1..Len(seq) : seq[k] = c

\* the lower-case form re compares under IGNORECASE
ReLower(c) ==
  IF InSeq(c, Upper26) THEN Lower26[IndexOf(c, Upper26)]
  ELSE IF InSeq(c, CyrUpper) THEN CyrLower[IndexOf(c, CyrUpper)]
  ELSE IF c = DottedCapitalI THEN "i"
  ELSE c

\* whether text character c matches pattern character l under the flags of line 67
CharMatches(c, l, case_sensitive) ==
  IF case_sensitive THEN c = l
  ELSE \/ ReLower(c) = ReLower(l)
       \/ {ReLower(c), ReLower(l)} \subseteq {"i", DotlessSmallI}

\* str.upper on one character
StrUpperNone(c) == c
StrUpper(c) ==
  IF InSeq(c, Lower26) THEN Upper26[IndexOf(c, Lower26)]
  ELSE IF InSeq(c, CyrLower) THEN CyrUpper[IndexOf(c, CyrLower)]
  ELSE IF c = DotlessSmallI THEN "I"
  ELSE c

\* \s
IsSpace(c) == c \in {" ", "\n", "\t"}

\* str.strip
RECURSIVE LStrip(_)
LStrip(t) == IF t # <<>> /\ IsSpace(t[1]) THEN LStrip(Tail(t)) ELSE t
RECURSIVE RStrip(_)
RStrip(t) == IF t # <<>> /\ IsSpace(t[Len(t)]) THEN RStrip(SubSeq(t, 1, Len(t) - 1)) ELSE t
Strip(t) == RStrip(LStrip(t))

\* MultipleChoiceParser.__init__ (lines 40-42)
AllowedOptions(allowed_options, case_sensitive) ==
  IF case_sensitive THEN allowed_options
  ELSE [k \in 1..Len(allowed_options) |-> StrUpper(allowed_options[k])]

NoMatch == [matched |-> FALSE]
Match(letter) == [matched |-> TRUE, group1 |-> letter]

\* [allowed]: the character at position q is one of the class
InClass(t, q, allowed, cs) ==
  q <= Len(t) /\ \E k \in 1..Len(allowed) : CharMatches(t[q], allowed[k], cs)

\* (?:[\.\s]|$) at position q
Terminator(t, q) == q > Len(t) \/ t[q] = "." \/ IsSpace(t[q])

\* ([allowed])\)?(?:[\.\s]|$) with the letter at position q
LetterAt(t, q, allowed, cs) ==
  /\ InClass(t, q, allowed, cs)
  /\ \/ q + 1 <= Len(t) /\ t[q + 1] = ")" /\ Terminator(t, q + 2)
     \/ Terminator(t, q + 1)

\* (?:\(?([allowed])\)?)(?:[\.\s]|$) at position q: the tail all three patterns share
Core(t, q, allowed, cs) ==
  IF q <= Len(t) /\ t[q] = "(" /\ LetterAt(t, q + 1, allowed, cs) THEN Match(t[q + 1])
  ELSE IF LetterAt(t, q, allowed, cs) THEN Match(t[q])
  ELSE NoMatch

\* a literal word of a pattern at position q
WordAt(t, q, word, cs) ==
  /\ q + Len(word) - 1 <= Len(t)
  /\ \A k \in 1..Len(word) : CharMatches(t[q + k - 1], word[k], cs)

\* [:\s]* then the core, at position q: the longest run first, then shorter ones
RECURSIVE RunLength(_, _)
RunLength(t, q) ==
  IF q <= Len(t) /\ (t[q] = ":" \/ IsSpace(t[q])) THEN 1 + RunLength(t, q + 1) ELSE 0
RECURSIVE CoreAfterRun(_, _, _, _, _)
CoreAfterRun(t, q, n, allowed, cs) ==
  IF Core(t, q + n, allowed, cs).matched THEN Core(t, q + n, allowed, cs)
  ELSE IF n = 0 THEN NoMatch
  ELSE CoreAfterRun(t, q, n - 1, allowed, cs)
CueTail(t, q, allowed, cs) == CoreAfterRun(t, q, RunLength(t, q), allowed, cs)

WordAnswer == <<"a", "n", "s", "w", "e", "r">>
WordOtvet == <<"U+043E", "U+0442", "U+0432", "U+0435", "U+0442">>
WordTheAnswerIs == <<"t", "h", "e", " ", "a", "n", "s", "w", "e", "r", " ", "i", "s">>

\* pattern 1 (line 59) tried with its start at position q
Pattern1At(t, q, allowed, cs) ==
  IF q = 1 /\ Core(t, 1, allowed, cs).matched THEN Core(t, 1, allowed, cs)
  ELSE IF q <= Len(t) /\ IsSpace(t[q]) THEN Core(t, q + 1, allowed, cs)
  ELSE NoMatch

\* pattern 2 (line 61) tried with its start at position q
Pattern2At(t, q, allowed, cs) ==
  IF WordAt(t, q, WordOtvet, cs) /\ CueTail(t, q + Len(WordOtvet), allowed, cs).matched
    THEN CueTail(t, q + Len(WordOtvet), allowed, cs)
  ELSE IF WordAt(t, q, WordAnswer, cs) THEN CueTail(t, q + Len(WordAnswer), allowed, cs)
  ELSE NoMatch

\* pattern 3 (line 63) tried with its start at position q
Pattern3At(t, q, allowed, cs) ==
  IF q = 1 /\ WordAt(t, 1, WordTheAnswerIs, cs)
       /\ CueTail(t, 1 + Len(WordTheAnswerIs), allowed, cs).matched
    THEN CueTail(t, 1 + Len(WordTheAnswerIs), allowed, cs)
  ELSE IF q <= Len(t) /\ IsSpace(t[q]) /\ WordAt(t, q + 1, WordTheAnswerIs, cs)
    THEN CueTail(t, q + 1 + Len(WordTheAnswerIs), allowed, cs)
  ELSE NoMatch

PatternAt(n, t, q, allowed, cs) ==
  CASE n = 1 -> Pattern1At(t, q, allowed, cs)
    [] n = 2 -> Pattern2At(t, q, allowed, cs)
    [] OTHER -> Pattern3At(t, q, allowed, cs)

\* re.search(patterns[n], response, flags): the match with the leftmost start
RECURSIVE SearchFrom(_, _, _, _, _)
SearchFrom(n, t, q, allowed, cs) ==
  IF q > Len(t) + 1 THEN NoMatch
  ELSE IF PatternAt(n, t, q, allowed, cs).matched THEN PatternAt(n, t, q, allowed, cs)
  ELSE SearchFrom(n, t, q + 1, allowed, cs)
Search(n, t, allowed, cs) == SearchFrom(n, t, 1, allowed, cs)

NumPatterns == 3

\* the value line 71 returns for the captured letter
Canonical(letter, case_sensitive) ==
  IF case_sensitive THEN letter ELSE StrUpper(letter)

\* the patterns in list order
PatternOrder(k) == k

Returns(value) == [status |-> "returned", value |-> value]
Raises(error) == [status |-> "raised", error |-> error]

\* MultipleChoiceParser.parse, for a parser built with (case_sensitive, allowed_options)
RECURSIVE TryPatterns(_, _, _, _)
TryPatterns(k, t, allowed, cs) ==
  IF k > NumPatterns THEN <<>>
  ELSE LET match == Search(PatternOrder(k), t, allowed, cs)
       IN IF match.matched THEN <<Canonical(match.group1, cs)>>
          ELSE TryPatterns(k + 1, t, allowed, cs)

MultipleChoiceParse(p, t) ==
  IF t = <<>> THEN Returns(<<>>)
  ELSE Returns(TryPatterns(1, t, AllowedOptions(p.allowed_options, p.case_sensitive),
                           p.case_sensitive))

(***************************************************************************)
(* RegexParser.  The caller's pattern is one of the family                 *)
(* (w1)|(w2)|...|(wn): n capture groups, each a literal word; a match is   *)
(* the leftmost occurrence of a word, the earlier alternative first, and   *)
(* only that alternative's group takes part in it.                         *)
(***************************************************************************)
RECURSIVE FirstWord(_, _, _, _)
FirstWord(pattern, t, q, k) ==
  IF k > Len(pattern) THEN 0
  ELSE IF WordAt(t, q, pattern[k], TRUE) THEN k
  ELSE FirstWord(pattern, t, q, k + 1)

RECURSIVE RegexSearchFrom(_, _, _)
RegexSearchFrom(pattern, t, q) ==
  IF q > Len(t) + 1 THEN [matched |-> FALSE]
  ELSE IF FirstWord(pattern, t, q, 1) > 0
    THEN [matched |-> TRUE, alt |-> FirstWord(pattern, t, q, 1)]
  ELSE RegexSearchFrom(pattern, t, q + 1)

\* the test of line 106
GroupInRange(group, pattern) == group <= Len(pattern)

\* RegexParser.parse, for a parser built with (pattern, group, fallback_to_full)
RegexParse(p, t) ==
  IF t = <<>> THEN Returns(<<>>)
  ELSE LET match == RegexSearchFrom(p.pattern, t, 1)
       IN IF match.matched /\ GroupInRange(p.group, p.pattern)
          THEN IF p.group < 0 THEN Raises("IndexError")            \* match.group(-1)
               ELSE IF p.group \in {0, match.alt} THEN Returns(Strip(p.pattern[match.alt]))
               ELSE Raises("AttributeError")                        \* None.strip()
          ELSE Returns(IF p.fallback_to_full THEN Strip(t) ELSE <<>>)

(***************************************************************************)
(* The texts and the parsers the two parse functions are applied to.       *)
(***************************************************************************)
TheAnswerIsC == <<"T", "h", "e", " ", "a", "n", "s", "w", "e", "r", " ", "i", "s", " ",
                  "(", "C", ")", ".">>
NoDiscernibleLetter == <<"n", "o", " ", "d", "i", "s", "c", "e", "r", "n", "i", "b", "l", "e",
                         " ", "l", "e", "t", "t", "e", "r", " ", "h", "e", "r", "e">>
LowerBDot == <<"b", ".">>
ParenthesizedC == <<"(", "C", ")">>

Fragments ==
  {WordTheAnswerIs, WordAnswer,
   <<"U+041E", "U+0422", "U+0412", "U+0415", "U+0422">>,
   <<" ">>, <<":">>, <<"(">>, <<")">>, <<".">>, LowerBDot, ParenthesizedC, <<"C">>,
   <<DottedCapitalI>>}

RECURSIVE Concat(_)
Concat(parts) == IF parts = <<>> THEN <<>> ELSE parts[1] \o Concat(Tail(parts))

ModelResponses ==
  {Concat(fs) : fs \in UNION {[1..n -> Fragments] : n \in 0..MaxFrags}}
    \cup {TheAnswerIsC, NoDiscernibleLetter, LowerBDot}

\* the defaults of MultipleChoiceParser.__init__ (line 30)
DefaultAllowedOptions == SubSeq(Upper26, 1, 10)
DefaultMultipleChoiceParser ==
  [class |-> "MultipleChoiceParser", case_sensitive |-> FALSE,
   allowed_options |-> DefaultAllowedOptions]

MultipleChoiceParsers ==
  {DefaultMultipleChoiceParser,
   [class |-> "MultipleChoiceParser", case_sensitive |-> TRUE,
    allowed_options |-> DefaultAllowedOptions],
   [class |-> "MultipleChoiceParser", case_sensitive |-> FALSE,
    allowed_options |-> <<"a", "b", "c">>]}

RegexTexts == UNION {[1..n -> {"a", "b", " "}] : n \in 0..MaxRegexLen}
RegexPatterns == {<<<<"a">>>>, <<<<"a">>, <<"b">>>>, <<<<" ", "b">>, <<"a", "a">>>>}
RegexParsers ==
  {[class |-> "RegexParser", pattern |-> pat, group |-> g, fallback_to_full |-> fb] :
     pat \in RegexPatterns, g \in -1..3, fb \in BOOLEAN}

InitParse ==
  /\ InitGen /\ kind = "single"
  /\ InitClient /\ batch_size = 1
  /\ \/ parser \in MultipleChoiceParsers /\ raw_response \in ModelResponses
     \/ parser \in RegexParsers /\ raw_response \in RegexTexts
  /\ parsed = [status |-> "pending"]
  /\ InitNoEvaluator /\ InitNoStrategy /\ InitNoConfig

MultipleChoiceParserParse ==
  /\ parser.class = "MultipleChoiceParser"
  /\ parsed.status = "pending"
  /\ parsed' = MultipleChoiceParse(parser, raw_response)
  /\ UNCHANGED <<genVars, clientVars, parser, raw_response, evalVars, strategyVars, configVars>>

RegexParserParse ==
  /\ parser.class = "RegexParser"
  /\ parsed.status = "pending"
  /\ parsed' = RegexParse(parser, raw_response)
  /\ UNCHANGED <<genVars, clientVars, parser, raw_response, evalVars, strategyVars, configVars>>

NextParse == MultipleChoiceParserParse \/ RegexParserParse
SpecParse == InitParse /\ [][NextParse]_vars


(***************************************************************************)
(* Metrics.  A result is a dict: a function from keys to values, where a   *)
(* key may be missing.  A float is kept as a fraction in lowest terms; the *)
(* scores of the nltk and rouge_score libraries are kept as applications   *)
(* of the library function to its arguments.                               *)
(***************************************************************************)
MaxResults == 2     \* longest list handed to Metric.calculate directly
MaxRows == 2        \* longest list handed to evaluate_dataset

\* dict.get(key, default)
Get(d, key, default) == IF key \in DOMAIN d THEN d[key] ELSE default

RECURSIVE Gcd(_, _)
Gcd(a, b) == IF b = 0 THEN a ELSE Gcd(b, a % b)
\* the float a / b
Div(a, b) == [num |-> a \div Gcd(a, b), den |-> b \div Gcd(a, b)]
\* the float 0.0
Zero == [num |-> 0, den |-> 1]

\* the indices of the results whose is_correct flag is true
CorrectFlagsMissingAsTrue(result_list) ==
  {k \in 1..Len(result_list) : Get(result_list[k], "is_correct", TRUE)}
CorrectFlags(result_list) ==
  {k \in 1..Len(result_list) : Get(result_list[k], "is_correct", FALSE)}

\* what calculate hands back: the report, and the list with what was written to it
Calculated(report, result_list) == [report |-> report, result_list |-> result_list]

\* AccuracyMetric.calculate
AccuracyCalculate(result_list) ==
  IF result_list = <<>>
  THEN [total_examples |-> 0, correct_answers |-> 0, accuracy |-> Zero]
  ELSE LET total_evaluated == Len(result_list)
           correct_count == Cardinality(CorrectFlags(result_list))
       IN [total_examples |-> total_evaluated,
           correct_answers |-> correct_count,
           accuracy |-> IF total_evaluated > 0 THEN Div(correct_count, total_evaluated)
                        ELSE Zero]

\* the key DomainAccuracyMetric groups a result under (line 38)
DomainKeyAlwaysUnknown(result) == "unknown"
DomainKey(result) == Get(result, "domain", "unknown")

\* DomainAccuracyMetric.calculate: domain_stats after the first k results (lines 37-44)
RECURSIVE DomainCounts(_, _)
DomainCounts(result_list, k) ==
  IF k = 0 THEN <<>>
  ELSE LET domain_stats == DomainCounts(result_list, k - 1)
           domain == DomainKey(result_list[k])
           seen == IF domain \in DOMAIN domain_stats THEN domain_stats[domain]
                   ELSE [total |-> 0, correct |-> 0]
       IN (domain :> [total |-> seen.total + 1,
                      correct |-> seen.correct
                                    + IF Get(result_list[k], "is_correct", FALSE) THEN 1 ELSE 0])
            @@ domain_stats

DomainAccuracyCalculate(result_list) ==
  IF result_list = <<>> THEN [domain_stats |-> <<>>]
  ELSE LET domain_stats == DomainCounts(result_list, Len(result_list))
       IN [domain_stats |->
             [domain \in DOMAIN domain_stats |->
                [total |-> domain_stats[domain].total,
                 correct |-> domain_stats[domain].correct,
                 accuracy |-> IF domain_stats[domain].total > 0
                              THEN Div(domain_stats[domain].correct,
                                       domain_stats[domain].total)
                              ELSE Zero]]]

\* str.lower: one character may become two
CombiningDotAbove == "U+0307"
LowerChar(c) ==
  IF InSeq(c, Upper26) THEN <<Lower26[IndexOf(c, Upper26)]>>
  ELSE IF InSeq(c, CyrUpper) THEN <<CyrLower[IndexOf(c, CyrUpper)]>>
  ELSE IF c = DottedCapitalI THEN <<"i", CombiningDotAbove>>
  ELSE <<c>>
StrLower(t) == Concat([k \in 1..Len(t) |-> LowerChar(t[k])])

Digits == {"0", "1", "2", "3", "4", "5", "6", "7", "8", "9"}
\* \w
IsWord(c) ==
  \/ InSeq(c, Lower26) \/ InSeq(c, Upper26) \/ InSeq(c, CyrLower) \/ InSeq(c, CyrUpper)
  \/ c \in Digits \/ c = "_" \/ c \in {DottedCapitalI, DotlessSmallI}

\* re.sub(r"[^\w\s]", "", text)
DropPunctuation(t) == SelectSeq(t, LAMBDA c : IsWord(c) \/ IsSpace(c))

\* re.sub(r"\s+", " ", text)
RECURSIVE CollapseSpaces(_)
CollapseSpaces(t) ==
  IF t = <<>> THEN <<>>
  ELSE IF IsSpace(t[1])
    THEN IF Len(t) > 1 /\ IsSpace(t[2]) THEN CollapseSpaces(Tail(t))
         ELSE <<" ">> \o CollapseSpaces(Tail(t))
  ELSE <<t[1]>> \o CollapseSpaces(Tail(t))

\* ExactMatchMetric._normalize_text
NormalizeText(m, text) ==
  LET folded == IF ~m.case_sensitive THEN StrLower(text) ELSE text
  IN IF m.normalize THEN Strip(CollapseSpaces(DropPunctuation(folded))) ELSE folded

\* the two answers as line 84 compares them (lines 77-82)
Comparable(m, answer) ==
  IF m.normalize THEN NormalizeText(m, answer)
  ELSE IF ~m.case_sensitive THEN StrLower(answer)
  ELSE answer
ComparableExpectedRaw(m, answer) == answer
ComparableExpected(m, answer) == Comparable(m, answer)

\* the is_correct of line 84
ExactMatchIsCorrect(m, result) ==
  Comparable(m, Get(result, "parsed_answer", <<>>))
    = ComparableExpected(m, Get(result, "expected_answer", <<>>))

\* the write of line 85
SetIsCorrectSkipped(result, is_correct) == result
SetIsCorrect(result, is_correct) == ("is_correct" :> is_correct) @@ result

\* ExactMatchMetric.calculate
ExactMatchCalculate(m, result_list) ==
  LET total_evaluated == Len(result_list)
      written == [k \in 1..Len(result_list) |->
                    SetIsCorrect(result_list[k], ExactMatchIsCorrect(m, result_list[k]))]
      correct_count == Cardinality({k \in 1..Len(result_list) :
                                      ExactMatchIsCorrect(m, result_list[k])})
  IN Calculated([total_examples |-> total_evaluated,
                 correct_answers |-> correct_count,
                 accuracy |-> IF total_evaluated > 0
                              THEN Div(correct_count, total_evaluated) ELSE Zero],
                written)

\* F1ScoreMetric.calculate: the class of one result (lines 120-130)
F1Class(m, result) ==
  LET prediction == Get(result, "is_correct", FALSE)
      expected == m.pos_label
  IN IF prediction = expected /\ expected = m.pos_label THEN "true_positives"
     ELSE IF prediction = m.pos_label /\ expected # m.pos_label THEN "false_positives"
     ELSE IF prediction # m.pos_label /\ expected = m.pos_label THEN "false_negatives"
     ELSE "true_negatives"

F1ScoreCalculate(m, result_list) ==
  IF result_list = <<>>
  THEN [precision |-> Zero, recall |-> Zero, f1_score |-> Zero,
        true_positives |-> 0, false_positives |-> 0, false_negatives |-> 0,
        true_negatives |-> 0, total_examples |-> 0]
  ELSE LET Count(class) == Cardinality({k \in 1..Len(result_list) :
                                          F1Class(m, result_list[k]) = class})
           tp == Count("true_positives")
           fp == Count("false_positives")
           fn == Count("false_negatives")
           precision == IF tp + fp > 0 THEN Div(tp, tp + fp) ELSE Zero
           recall == IF tp + fn > 0 THEN Div(tp, tp + fn) ELSE Zero
           \* 2 * (precision * recall) / (precision + recall)
           f1 == IF precision.num + recall.num > 0
                 THEN Div(2 * precision.num * recall.num,
                          precision.num * recall.den + recall.num * precision.den)
                 ELSE Zero
       IN [precision |-> precision, recall |-> recall, f1_score |-> f1,
           true_positives |-> tp, false_positives |-> fp, false_negatives |-> fn,
           true_negatives |-> Count("true_negatives"), total_examples |-> Len(result_list)]

\* the mean of library scores: 0.0 when every score is 0.0
Mean(scores) ==
  IF \A k \in 1..Len(scores) : scores[k] = Zero THEN Zero
  ELSE [fn |-> "mean", of |-> scores]

\* BLEUMetric._tokenize yields no token exactly for a text of whitespace only
NoTokens(text) == Strip(StrLower(text)) = <<>>

\* the score of one result (lines 219-233)
BleuScore(result) ==
  LET reference == Get(result, "expected_answer", <<>>)
      hypothesis == Get(result, "parsed_answer", <<>>)
  IN IF NoTokens(reference) \/ NoTokens(hypothesis) THEN Zero
     ELSE [fn |-> "sentence_bleu", reference |-> StrLower(reference),
           hypothesis |-> StrLower(hypothesis)]

\* BLEUMetric.calculate
BleuCalculate(result_list) ==
  IF result_list = <<>> THEN [bleu_score |-> Zero, total_examples |-> 0]
  ELSE LET bleu_scores == [k \in 1..Len(result_list) |-> BleuScore(result_list[k])]
       IN [bleu_score |-> Mean(bleu_scores),
           individual_scores |-> bleu_scores,
           total_examples |-> Len(result_list)]

RougeTypes == <<"rouge1", "rouge2", "rougeL">>
RougeStats == <<"precision", "recall", "f1">>

\* the (rouge_type, stat) pairs a report has a key for
RougePairs == {<<ty, st>> : ty \in 1..Len(RougeTypes), st \in 1..Len(RougeStats)}
RougeKey(pair) == RougeTypes[pair[1]] \o "_" \o RougeStats[pair[2]]
\* the dict with value[pair] under the key f"{rouge_type}_{stat}"
RougeDict(value) ==
  [key \in {RougeKey(pair) : pair \in RougePairs} |->
     value[CHOOSE pair \in RougePairs : RougeKey(pair) = key]]

\* ROUGEMetric.calculate
RougeCalculate(result_list) ==
  IF result_list = <<>>
  THEN RougeDict([pair \in RougePairs |-> Zero]) @@ [total_examples |-> 0]
  ELSE LET scored == SelectSeq(result_list, LAMBDA result :
                       /\ Get(result, "expected_answer", <<>>) # <<>>
                       /\ Get(result, "parsed_answer", <<>>) # <<>>)
           Average(rouge_type, stat) ==
             IF scored = <<>> THEN Zero
             ELSE [fn |-> "mean",
                   of |-> [k \in 1..Len(scored) |->
                            [fn |-> "rouge_score", rouge_type |-> rouge_type,
                             stat |-> stat,
                             reference |-> scored[k].expected_answer,
                             hypothesis |-> scored[k].parsed_answer]]]
       IN RougeDict([pair \in RougePairs |->
                       Average(RougeTypes[pair[1]], RougeStats[pair[2]])])
            @@ [total_examples |-> Len(result_list)]

\* CompositeMetric._get_metric_name on the metric classes
GetMetricName(m) ==
  CASE m.class = "AccuracyMetric" -> "accuracy"
    [] m.class = "DomainAccuracyMetric" -> "domainaccuracy"
    [] m.class = "ExactMatchMetric" -> "exactmatch"
    [] m.class = "F1ScoreMetric" -> "f1score"
    [] m.class = "CompositeMetric" -> "composite"
    [] m.class = "BLEUMetric" -> "bleu"
    [] m.class = "ROUGEMetric" -> "rouge"

\* the constructors, with their defaults
AccuracyMetric == [class |-> "AccuracyMetric"]
DomainAccuracyMetric == [class |-> "DomainAccuracyMetric"]
ExactMatchMetric(case_sensitive, normalize) ==
  [class |-> "ExactMatchMetric", case_sensitive |-> case_sensitive, normalize |-> normalize]
DefaultExactMatchMetric == ExactMatchMetric(FALSE, TRUE)
F1ScoreMetric == [class |-> "F1ScoreMetric", pos_label |-> TRUE]
BLEUMetric == [class |-> "BLEUMetric"]
ROUGEMetric == [class |-> "ROUGEMetric"]
CompositeMetricNamed(metrics, metric_names) ==
  [class |-> "CompositeMetric", metrics |-> metrics, metric_names |-> metric_names]
CompositeMetric(metrics) ==
  CompositeMetricNamed(metrics, [k \in 1..Len(metrics) |-> GetMetricName(metrics[k])])

\* the keys of a constituent's report as they are merged (lines 184-187)
Prefix(i, name) == IF i = 1 THEN "" ELSE name \o "_"
Prefixed(prefix, report) ==
  [key \in {prefix \o k : k \in DOMAIN report} |->
     report[CHOOSE k \in DOMAIN report : prefix \o k = key]]

Min(a, b) == IF a < b THEN a ELSE b

\* Metric.calculate of metric m on the list result_list
RECURSIVE Calculate(_, _)
\* the loop of CompositeMetric.calculate from constituent i on
RECURSIVE CombineFrom(_, _, _, _, _)
CombineFrom(metrics, metric_names, i, combined_results, result_list) ==
  IF i > Min(Len(metrics), Len(metric_names))
  THEN Calculated(combined_results, result_list)
  ELSE LET done == Calculate(metrics[i], result_list)
       IN CombineFrom(metrics, metric_names, i + 1,
                      Prefixed(Prefix(i, metric_names[i]), done.report) @@ combined_results,
                      done.result_list)

Calculate(m, result_list) ==
  CASE m.class = "AccuracyMetric" -> Calculated(AccuracyCalculate(result_list), result_list)
    [] m.class = "DomainAccuracyMetric" ->
         Calculated(DomainAccuracyCalculate(result_list), result_list)
    [] m.class = "ExactMatchMetric" -> ExactMatchCalculate(m, result_list)
    [] m.class = "F1ScoreMetric" -> Calculated(F1ScoreCalculate(m, result_list), result_list)
    [] m.class = "BLEUMetric" -> Calculated(BleuCalculate(result_list), result_list)
    [] m.class = "ROUGEMetric" -> Calculated(RougeCalculate(result_list), result_list)
    [] m.class = "CompositeMetric" ->
         CombineFrom(m.metrics, m.metric_names, 1, <<>>, result_list)

(***************************************************************************)
(* Evaluators.  Evaluator and MultiMetricEvaluator share evaluate_response *)
(* and the first half of evaluate_dataset line for line.                   *)
(***************************************************************************)
\* ResponseParser.parse of the parser p
Parse(p, text) ==
  IF p.class = "MultipleChoiceParser" THEN MultipleChoiceParse(p, text)
  ELSE RegexParse(p, text)

\* line 138 / 316
AnswersEqual(parsed_answer, expected_answer) == parsed_answer = expected_answer

\* evaluate_response
EvaluateResponse(p, prompt, model_output, expected_output) ==
  LET parse == Parse(p, model_output)
      expected_answer == Strip(expected_output)
  IN IF parse.status = "raised" THEN parse
     ELSE Returns([parsed_answer |-> parse.value,
                   expected_answer |-> expected_answer,
                   is_correct |-> AnswersEqual(parse.value, expected_answer),
                   prompt |-> prompt,
                   model_output |-> model_output])

\* `not r.get("error")`
HasError(r) == Get(r, "error", NoneVal) \notin {NoneVal, ""}
IsValid(r) == ~HasError(r)

\* valid_results (line 160 / 338)
ValidResults(result_list) == SelectSeq(result_list, IsValid)

MetaExcluded == {"prompt", "model_output", "expected_output", "error"}

\* evaluation_with_meta (lines 171-182 / 349-360)
EvaluationWithMeta(result, response_evaluation) ==
  [key \in DOMAIN result \ MetaExcluded |-> result[key]]
    @@ [index |-> Get(result, "index", NoneVal),
        domain |-> Get(result, "domain", "unknown"),
        parsed_answer |-> response_evaluation.parsed_answer,
        expected_answer |-> response_evaluation.expected_answer,
        is_correct |-> response_evaluation.is_correct]

\* the loop over valid_results from its k-th element on (lines 165-184 / 343-362):
\* processed_results, or the exception that leaves evaluate_dataset
RECURSIVE ProcessFrom(_, _, _, _)
ProcessFrom(p, valid_results, k, processed_so_far) ==
  IF k > Len(valid_results) THEN Returns(processed_so_far)
  ELSE LET response_evaluation ==
             EvaluateResponse(p, valid_results[k].prompt, valid_results[k].model_output,
                              valid_results[k].expected_output)
       IN IF response_evaluation.status = "raised" THEN response_evaluation
          ELSE ProcessFrom(p, valid_results, k + 1,
                           Append(processed_so_far,
                                  EvaluationWithMeta(valid_results[k],
                                                     response_evaluation.value)))

Processed(p, result_list) == ProcessFrom(p, ValidResults(result_list), 1, <<>>)

\* Evaluator.evaluate_dataset on a list the loop got through
EvaluatorReport(ev, processed) ==
  LET done == Calculate(ev.metric, processed)
  IN Calculated([detailed_evaluations |-> done.result_list] @@ done.report, done.result_list)

\* MultiMetricEvaluator.evaluate_dataset on a list the loop got through
MultiMetricReport(ev, processed) ==
  LET done == CombineFrom(ev.metrics, ev.metric_names, 1, <<>>, processed)
  IN Calculated([detailed_evaluations |-> done.result_list] @@ done.report, done.result_list)

\* the output MmluCsvToJsonlConverter.process_row writes for an answer letter
ConverterOutput(answer_letter) == <<"(", answer_letter, ")">>

\* the constructors
Evaluator(m) == [class |-> "Evaluator", metric |-> m]
MultiMetricEvaluatorNamed(metrics, metric_names) ==
  [class |-> "MultiMetricEvaluator", metrics |-> metrics, metric_names |-> metric_names]
MultiMetricEvaluator(metrics) ==
  MultiMetricEvaluatorNamed(metrics, [k \in 1..Len(metrics) |-> GetMetricName(metrics[k])])

(***************************************************************************)
(* The results, rows, metrics and evaluators the methods are applied to.   *)
(***************************************************************************)
\* (parsed_answer, expected_answer) of a result
ResultAnswers ==
  {<< <<"(", "C", ")", ".">>, <<"(", "C", ")", ".">> >>,
   << <<"C">>, <<"(", "c", ")">> >>,
   << <<"B">>, <<"C">> >>,
   << <<>>, <<>> >>}

\* the is_correct flag and the domain of a result, either of which may be missing
ResultFlags ==
  {[is_correct |-> TRUE, domain |-> "law"],
   [is_correct |-> FALSE, domain |-> "law"],
   [is_correct |-> FALSE],
   [domain |-> "math"]}

ResultLists ==
  UNION {{[k \in 1..n |->
             [index |-> k - 1, parsed_answer |-> f[k][1][1],
              expected_answer |-> f[k][1][2]] @@ f[k][2]] :
            f \in [1..n -> ResultAnswers \X ResultFlags]} : n \in 0..MaxResults}

Metrics ==
  {AccuracyMetric, DomainAccuracyMetric, F1ScoreMetric, BLEUMetric, ROUGEMetric,
   CompositeMetric(<<AccuracyMetric, DomainAccuracyMetric>>),
   CompositeMetric(<<BLEUMetric, ROUGEMetric>>),
   CompositeMetric(<<AccuracyMetric, DefaultExactMatchMetric>>),
   CompositeMetric(<<DefaultExactMatchMetric, AccuracyMetric>>),
   CompositeMetricNamed(<<ROUGEMetric, F1ScoreMetric>>, <<"rouge", "rouge1">>),
   CompositeMetric(<<CompositeMetric(<<AccuracyMetric, DefaultExactMatchMetric>>),
                     DefaultExactMatchMetric>>)}
    \cup {ExactMatchMetric(cs, nm) : cs \in BOOLEAN, nm \in BOOLEAN}

\* rows as _process_batch builds them: (model_output, expected_output, domain, error)
RowKinds ==
  {<< <<"(", "C", ")">>, <<"(", "C", ")">>, "math", NoneVal >>,
   << <<"b">>, <<"B">>, "law", NoneVal >>,
   << <<"a">>, <<"A", " ">>, "math", NoneVal >>,
   << <<"x">>, <<" ">>, "", NoneVal >>,
   << <<"x">>, <<"B">>, "law", NoneVal >>,
   << <<>>, <<"(", "C", ")">>, "math", NoneVal >>,
   << <<>>, <<"B">>, "law", "ConnectionError" >>,
   << <<>>, <<"A">>, "math", "busy" >>}

RowLists ==
  UNION {{[k \in 1..n |->
             [index |-> k - 1, prompt |-> "prompt", domain |-> f[k][3],
              expected_output |-> f[k][2], model_output |-> f[k][1], error |-> f[k][4]]] :
            f \in [1..n -> RowKinds]} : n \in 0..MaxRows}

ModelOutputs == {<<>>, <<"a">>, <<"b">>, <<"x">>, <<"(", "C", ")">>}
ExpectedOutputs ==
  {<<>>, <<" ">>, <<"A">>, <<"a">>, <<" ", "B", "\n">>, <<"(", "C", ")">>}

EvaluatorParsers ==
  {DefaultMultipleChoiceParser,
   [class |-> "RegexParser", pattern |-> << <<"a">>, <<"b">> >>, group |-> 1,
    fallback_to_full |-> TRUE],
   [class |-> "RegexParser", pattern |-> << <<"a">> >>, group |-> 0,
    fallback_to_full |-> FALSE]}

Evaluators ==
  {Evaluator(m) : m \in {AccuracyMetric, DefaultExactMatchMetric,
                         CompositeMetric(<<AccuracyMetric, DomainAccuracyMetric>>),
                         CompositeMetric(<<BLEUMetric, ROUGEMetric>>)}}
    \cup {MultiMetricEvaluator(<<AccuracyMetric, DefaultExactMatchMetric>>),
          MultiMetricEvaluator(<<DefaultExactMatchMetric, AccuracyMetric>>),
          MultiMetricEvaluatorNamed(<<ROUGEMetric, F1ScoreMetric>>, <<"rouge", "rouge1">>)}

InitEval ==
  /\ InitGen /\ kind = "single"
  /\ InitClient /\ batch_size = 1
  /\ raw_response = <<>> /\ parsed = [status |-> "pending"]
  /\ \/ metric \in Metrics /\ evaluator = NoEvaluator /\ parser = [class |-> "none"]
     \/ metric = NoMetric /\ evaluator \in Evaluators /\ parser \in EvaluatorParsers
  /\ call = "none" /\ dataset = <<>> /\ handed = <<>> /\ processed_results = <<>>
  /\ evaluation = Pending
  /\ InitNoStrategy /\ InitNoConfig

\* metric.calculate(results), called directly
MetricCalculate ==
  /\ metric # NoMetric /\ evaluation = Pending
  /\ \E result_list \in ResultLists :
       LET done == Calculate(metric, result_list)
       IN /\ call' = "calculate"
          /\ handed' = result_list
          /\ processed_results' = done.result_list
          /\ evaluation' = Returns(done.report)
  /\ UNCHANGED <<genVars, clientVars, parseVars, strategyVars, configVars, evaluator, metric,
                 dataset>>

\* evaluator.evaluate_response(prompt, model_output, expected_output)
EvaluatorEvaluateResponse ==
  /\ evaluator # NoEvaluator /\ evaluation = Pending
  /\ \E model_output \in ModelOutputs, expected_output \in ExpectedOutputs :
       /\ call' = "evaluate_response"
       /\ dataset' = <<[prompt |-> "prompt", model_output |-> model_output,
                        expected_output |-> expected_output]>>
       /\ evaluation' = EvaluateResponse(parser, "prompt", model_output, expected_output)
  /\ UNCHANGED <<genVars, clientVars, parseVars, strategyVars, configVars, evaluator, metric,
                 handed, processed_results>>

\* the second half of evaluate_dataset, by the evaluator's class
Report(ev, processed) ==
  IF ev.class = "Evaluator" THEN EvaluatorReport(ev, processed)
  ELSE MultiMetricReport(ev, processed)

\* evaluate_dataset(results) of either class
EvaluateDataset(result_list) ==
  /\ call' = "evaluate_dataset"
  /\ dataset' = result_list
  /\ \E processed \in {Processed(parser, result_list)} :
       IF processed.status = "raised"
       THEN /\ evaluation' = processed
            /\ UNCHANGED <<handed, processed_results>>
       ELSE \E done \in {Report(evaluator, processed.value)} :
              /\ handed' = processed.value
              /\ processed_results' = done.result_list
              /\ evaluation' = Returns(done.report)
  /\ UNCHANGED <<genVars, clientVars, parseVars, strategyVars, configVars, evaluator, metric>>

EvaluatorEvaluateDataset ==
  /\ evaluator.class = "Evaluator" /\ evaluation = Pending
  /\ \E result_list \in RowLists : EvaluateDataset(result_list)

MultiMetricEvaluatorEvaluateDataset ==
  /\ evaluator.class = "MultiMetricEvaluator" /\ evaluation = Pending
  /\ \E result_list \in RowLists : EvaluateDataset(result_list)

NextEval ==
  \/ MetricCalculate
  \/ EvaluatorEvaluateResponse
  \/ EvaluatorEvaluateDataset
  \/ MultiMetricEvaluatorEvaluateDataset
SpecEval == InitEval /\ [][NextEval]_vars


(***************************************************************************)
(* A caller of OptionsPromptStrategy.process.  The inputs it holds have    *)
(* any of the keys text, options and option_<letter>, for the first        *)
(* MaxOptionKeys letters, for the last one, j, and for k, which is past it. *)
(***************************************************************************)
MaxOptionKeys == 3   \* the leading letters an inputs dict may have an option for

OptionKey(k) == "option_" \o LowerLetters[k]

InputKeys ==
  {"text", "options", "option_k"}
    \cup {OptionKey(k) : k \in (1..MaxOptionKeys) \cup {Len(LowerLetters)}}

\* the value an inputs dict holds under a key; its options text is the one
\* create_options_data writes, which has no dot after the letter
InputValue(key) ==
  CASE key = "text" -> "q"
    [] key = "options" -> "A xoption_a"
    [] OTHER -> "x" \o key

StrategyInputs == {[key \in keys |-> InputValue(key)] : keys \in SUBSET InputKeys}

StrategyInstructions ==
  {<<Field("text"), Lit("\n"), Field("options"), Lit("\nThe answer is:")>>,
   <<Field("options")>>,
   <<Lit("Pick one: "), Field("option_a"), Lit(" or "), Field("option_j")>>,
   <<Field("text"), Lit(" "), Field("answer")>>}

\* strategy.process(instruction, inputs)
StrategyProcess ==
  /\ processed_prompt = Pending
  /\ \E instruction \in StrategyInstructions, inputs \in StrategyInputs :
       \E done \in {ProcessCall(instruction, inputs)} :
         /\ caller_instruction' = instruction
         /\ passed_inputs' = inputs
         /\ caller_inputs' = done.inputs
         /\ processed_prompt' = IF done.result.ok THEN Returns(done.result.text)
                                 ELSE Raises(done.result.error)
  /\ UNCHANGED <<genVars, clientVars, parseVars, evalVars, configVars>>

InitStrategy ==
  /\ InitGen /\ kind = "single"
  /\ InitClient /\ batch_size = 1
  /\ InitNoParser /\ InitNoEvaluator /\ InitNoStrategy /\ InitNoConfig

NextStrategy == StrategyProcess
SpecStrategy == InitStrategy /\ [][NextStrategy]_vars


(***************************************************************************)
(* Construction and configuration: CompositeMetric.__init__, and a         *)
(* MultiMetricEvaluator that is built, reconfigured, run and saved.  An    *)
(* optional argument is PyNone or PyValue(v).  A path is its components    *)
(* and whether it starts at the root.                                      *)
(***************************************************************************)
MaxMetrics == 2      \* longest list handed to a constructor or to change_metrics

ConfigMetrics == {AccuracyMetric, DefaultExactMatchMetric}
ConfigNames == <<"accuracy", "em", "f1", "bleu", "rouge">>

MetricLists == UNION {[1..n -> ConfigMetrics] : n \in 0..MaxMetrics}
NameArgs == {PyNone} \cup {PyValue(SubSeq(ConfigNames, 1, n)) : n \in 0..MaxMetrics}

\* the test `len(self.metrics) != len(self.metric_names)`
LengthsDifferOnlyFewerNames(metrics, metric_names) == Len(metrics) > Len(metric_names)
LengthsDiffer(metrics, metric_names) == Len(metrics) # Len(metric_names)

\* the metric_names a constructor or change_metrics assigns
MetricNames(metrics, metric_names) ==
  IF metric_names.none THEN [k \in 1..Len(metrics) |-> GetMetricName(metrics[k])]
  ELSE metric_names.value

RelativePath(parts) == [absolute |-> FALSE, parts |-> parts]
AbsolutePath(parts) == [absolute |-> TRUE, parts |-> parts]

\* os.path.join(a, b)
OsPathJoin(a, b) ==
  IF b.absolute THEN b ELSE [absolute |-> a.absolute, parts |-> a.parts \o b.parts]

\* truth value of an optional str: None and "" are false
Falsy(optional_path) == optional_path.none \/ optional_path.value = RelativePath(<<>>)

OutputDirs == {PyNone, PyValue(RelativePath(<<>>)), PyValue(RelativePath(<<"results">>))}
Filenames ==
  {RelativePath(<<"eval.json">>), RelativePath(<<"..", "eval.json">>),
   AbsolutePath(<<"tmp", "eval.json">>)}

\* CompositeMetric(metrics, metric_names)
NewCompositeMetric ==
  /\ metric = NoMetric /\ evaluator = NoEvaluator
  /\ \E metrics \in MetricLists, metric_names \in NameArgs :
       /\ call' = "CompositeMetric"
       /\ given' = [metrics |-> metrics, metric_names |-> metric_names]
       /\ IF LengthsDiffer(metrics, MetricNames(metrics, metric_names))
          THEN /\ evaluation' = Raises("ValueError")
               /\ UNCHANGED metric
          ELSE /\ evaluation' = Returns("CompositeMetric")
               /\ metric' = CompositeMetricNamed(metrics, MetricNames(metrics, metric_names))
  /\ UNCHANGED <<genVars, clientVars, parseVars, strategyVars, evaluator, dataset, handed,
                 processed_results, output_dir, saved>>

\* MultiMetricEvaluator(parser, metrics, metric_names, output_dir)
NewMultiMetricEvaluator ==
  /\ metric = NoMetric /\ evaluator = NoEvaluator
  /\ \E metrics \in MetricLists, metric_names \in NameArgs, dir \in OutputDirs :
       /\ call' = "MultiMetricEvaluator"
       /\ given' = [metrics |-> metrics, metric_names |-> metric_names]
       /\ IF LengthsDiffer(metrics, MetricNames(metrics, metric_names))
          THEN /\ evaluation' = Raises("ValueError")
               /\ UNCHANGED <<evaluator, parser, output_dir>>
          ELSE /\ evaluation' = Returns("MultiMetricEvaluator")
               /\ evaluator' = MultiMetricEvaluatorNamed(metrics,
                                                         MetricNames(metrics, metric_names))
               /\ parser' = DefaultMultipleChoiceParser
               /\ output_dir' = dir
  /\ UNCHANGED <<genVars, clientVars, raw_response, parsed, strategyVars, metric, dataset,
                 handed, processed_results, saved>>

\* the evaluator is configured before it is run and its report saved, as the
\* scripts do; a configuration method leaves everything but the evaluator alone
ConfigFrame ==
  /\ call \notin {"evaluate_dataset", "save_evaluation"}
  /\ UNCHANGED <<genVars, clientVars, parseVars, strategyVars, metric, dataset, handed,
                 processed_results, output_dir, saved>>

\* evaluator.change_metrics(metrics, metric_names)
ChangeMetrics ==
  /\ evaluator.class = "MultiMetricEvaluator"
  /\ \E metrics \in MetricLists, metric_names \in NameArgs :
       /\ call' = "change_metrics"
       /\ given' = [metrics |-> metrics, metric_names |-> metric_names]
       /\ evaluator' = [evaluator EXCEPT !.metrics = metrics,
                                         !.metric_names = MetricNames(metrics, metric_names)]
       /\ evaluation' = IF LengthsDiffer(metrics, MetricNames(metrics, metric_names))
                        THEN Raises("ValueError") ELSE Returns(NoneVal)
  /\ ConfigFrame

\* evaluator.add_metric(metric, metric_name)
AddMetric ==
  /\ evaluator.class = "MultiMetricEvaluator"
  /\ Len(evaluator.metrics) < MaxMetrics /\ Len(evaluator.metric_names) < MaxMetrics
  /\ \E m \in ConfigMetrics, metric_name \in {PyNone, PyValue(ConfigNames[1]), PyValue(ConfigNames[2])} :
       /\ call' = "add_metric"
       /\ given' = [metric |-> m, metric_name |-> metric_name]
       /\ evaluator' =
            [evaluator EXCEPT !.metrics = Append(@, m),
                              !.metric_names = Append(@, IF metric_name.none THEN GetMetricName(m)
                                                         ELSE metric_name.value)]
       /\ evaluation' = Returns(NoneVal)
  /\ ConfigFrame

\* list.pop(index) on a list, index counted from 1
Pop(list, index) == SubSeq(list, 1, index - 1) \o SubSeq(list, index + 1, Len(list))

\* evaluator.remove_metric(metric_name)
RemoveMetric ==
  /\ evaluator.class = "MultiMetricEvaluator"
  /\ \E metric_name \in {ConfigNames[1], ConfigNames[2], GetMetricName(DefaultExactMatchMetric)} :
       /\ call' = "remove_metric"
       /\ given' = [metric_name |-> metric_name]
       /\ IF \E k \in 1..Len(evaluator.metric_names) : evaluator.metric_names[k] = metric_name
          THEN LET index == CHOOSE k \in 1..Len(evaluator.metric_names) :
                              /\ evaluator.metric_names[k] = metric_name
                              /\ \A j \in 1..(k - 1) : evaluator.metric_names[j] # metric_name
               IN IF index > Len(evaluator.metrics)
                  THEN \* self.metrics.pop(index) is out of range
                       /\ evaluation' = Raises("IndexError")
                       /\ UNCHANGED evaluator
                  ELSE /\ evaluation' = Returns(NoneVal)
                       /\ evaluator' = [evaluator EXCEPT !.metrics = Pop(@, index),
                                                         !.metric_names = Pop(@, index)]
          ELSE /\ evaluation' = Raises("ValueError")
               /\ UNCHANGED evaluator
  /\ ConfigFrame

\* evaluator.save_evaluation(evaluation_results, filename)
SaveEvaluation ==
  /\ evaluator.class = "MultiMetricEvaluator"
  /\ \E filename \in Filenames :
       /\ call' = "save_evaluation"
       /\ given' = [filename |-> filename]
       /\ IF Falsy(output_dir)
          THEN /\ evaluation' = Raises("ValueError")
               /\ saved' = {}
          ELSE /\ evaluation' = Returns(NoneVal)
               /\ saved' = {OsPathJoin(output_dir.value, filename)}
  /\ UNCHANGED <<genVars, clientVars, parseVars, strategyVars, evaluator, metric, dataset,
                 handed, processed_results, output_dir>>

\* the rows the configured evaluator is run on
ConfigRowLists ==
  {r \in RowLists : Len(r) = 1 /\ r[1].error = NoneVal /\ r[1].expected_output # <<" ">>}

\* evaluator.evaluate_dataset(results) with the metrics as they are configured
ConfiguredEvaluateDataset ==
  /\ evaluator.class = "MultiMetricEvaluator"
  /\ call \notin {"evaluate_dataset", "save_evaluation"}
  /\ \E result_list \in ConfigRowLists : EvaluateDataset(result_list)

InitConfig ==
  /\ InitGen /\ kind = "single"
  /\ InitClient /\ batch_size = 1
  /\ InitNoParser /\ InitNoEvaluator /\ InitNoStrategy /\ InitNoConfig

NextConfig ==
  \/ NewCompositeMetric
  \/ NewMultiMetricEvaluator
  \/ ChangeMetrics
  \/ AddMetric
  \/ RemoveMetric
  \/ SaveEvaluation
  \/ ConfiguredEvaluateDataset
SpecConfig == InitConfig /\ [][NextConfig]_vars


(***************************************************************************)
(* Properties of the batch client (specification Spec).                    *)
(***************************************************************************)
Finished == pc \in {"done", "aborted"}
GeneratorRaised == ret.result \in GenErrors

\* C1: whatever requests fail, process_dataset returns one row per item the
\* generator emits, with index 0..n-1 in emission order; a row whose request
\* failed keeps its slot and has error set.
C1_OneRowPerItemInOrder ==
  (Finished /\ ~GeneratorRaised) =>
    /\ pc = "done"
    /\ Len(results) = Len(data)
    /\ \A p \in 1..Len(results) : results[p].index = p - 1
    /\ \A j \in 1..Len(sent) :
         sent[j].outcome.kind = "exc" => (j <= Len(results) /\ results[j].error # NoneVal)

\* C2: a transport error never aborts process_dataset, on either request
\* path; each failed request shows as a row with a non-empty error and an
\* empty model_output.
C2_TransportErrorNeverAborts ==
  /\ pc = "aborted" => GeneratorRaised
  /\ pc = "done" =>
       \A j \in 1..Len(sent) :
         sent[j].outcome.kind = "exc" =>
           \E p \in 1..Len(results) :
             /\ results[p].prompt = sent[j].prompt
             /\ results[p].error \notin {NoneVal, ""}
             /\ results[p].model_output = ""

\* what the response of a request holds for its row
OutputOf(outcome) ==
  IF outcome.kind = "exc" THEN ""
  ELSE IF "letter" \in DOMAIN outcome.body THEN outcome.body.letter
  ELSE IF "output" \in DOMAIN outcome.body THEN outcome.body.output
  ELSE ""
ErrorOf(outcome) ==
  IF outcome.kind = "exc" THEN outcome.msg
  ELSE IF "letter" \notin DOMAIN outcome.body /\ "error" \in DOMAIN outcome.body
    THEN outcome.body.error
  ELSE NoneVal

\* C3: every row pairs the response with its own request: model_output and
\* error come from the response to the request that carried the row's prompt,
\* and index, prompt, domain and expected_output are those of the generator
\* item emitted with that index (expected_output the Record's output).
C3_RowsPairResponseWithRequest ==
  \A row \in {results[p] : p \in 1..Len(results)} \cup {batch_results[p] : p \in 1..Len(batch_results)} :
    LET items == {k \in 1..Len(emitted) : emitted[k].index = row.index}
        reqs == {j \in 1..Len(sent) : sent[j].prompt = row.prompt}
    IN /\ Cardinality(items) = 1
       /\ \A k \in items :
            /\ row.prompt = emitted[k].prompt
            /\ row.domain = emitted[k].domain
            /\ row.expected_output = emitted[k].output
            /\ row.expected_output = data[row.index + 1].output
       /\ Cardinality(reqs) = 1
       /\ \A j \in reqs :
            /\ row.model_output = OutputOf(sent[j].outcome)
            /\ row.error = ErrorOf(sent[j].outcome)

C3_Witness ==
  /\ pc = "done"
  /\ batch_size = 2
  /\ Len(results) = 3
  /\ results[1].model_output = "A"
  /\ results[2].model_output = "(B)"
  /\ results[3].error = "JSONDecodeError"

C26_OneRequestPerBatch ==
  (pc = "done" /\ ~(deterministic /\ max_tokens <= 3)) =>
    Len(sent) = (Len(emitted) + batch_size - 1) \div batch_size

(***************************************************************************)
(* Properties of the generators (specification SpecGen).                   *)
(***************************************************************************)
\* C4: few-shot load_data on N records with n_shots = k fails when N <= k;
\* otherwise the first k records are the exemplars, the iterable sequence is
\* the remaining N-k records in load order, and no exemplar is ever yielded.
C4_FewShotPartition ==
  kind = "fewshot" =>
    /\ ret.op = "load_data" =>
         IF Len(file) <= n_shots THEN ret.result = "ValueError"
         ELSE /\ ret.result = "ok"
              /\ few_shot_examples = SubSeq(file, 1, n_shots)
              /\ Len(data) = Len(file) - n_shots
              /\ \A i \in 1..Len(data) : data[i] = file[n_shots + i]
    /\ Len(file) > n_shots =>
         /\ Len(emitted) <= Len(file) - n_shots
         /\ \A i \in 1..Len(emitted) :
              /\ emitted[i].output = file[n_shots + i].output
              /\ \A k \in 1..n_shots : emitted[i].output # file[k].output

C4_Witness ==
  /\ kind = "fewshot"
  /\ n_shots = 3
  /\ Len(file) = 5
  /\ ret = Returned("__next__", "StopIteration")
  /\ Len(emitted) = 2

\* C5: each next step of a pass yields one item whose index is the cursor
\* before the step and advances the cursor by one; the pass yields n items,
\* indices 0..n-1 in record order, and ends exactly when the cursor reaches n.
C5_OneItemPerNextStep ==
  /\ ret.op = "__next__" =>
       \/ ret.result = "item"
       \/ ret.result = "StopIteration" /\ current_index = Len(data)
  /\ current_index <= Len(data)
  /\ Len(emitted) = current_index
  /\ \A i \in 1..Len(emitted) :
       emitted[i].index = i - 1 /\ emitted[i].output = data[i].output

\* C6: an exhausted generator keeps signalling end-of-sequence until load or
\* reset; a reset leaves the records and the exemplars alone and the pass
\* after it yields the items of the first pass again.
C6_ExhaustedUntilResetThenSamePass ==
  [][ /\ (ret'.op = "__next__" /\ current_index >= Len(data)) =>
           (ret'.result = "StopIteration" /\ UNCHANGED <<data, current_index, emitted>>)
      /\ ret'.op = "__iter__" =>
           (current_index' = 0 /\ UNCHANGED <<data, few_shot_examples, firstPass>>)
      /\ \A i \in 1..Len(emitted') : emitted'[i] = firstPass'[i]
      /\ current_index' = Len(data') => emitted' = firstPass' ]_vars

C6_Witness ==
  /\ kind = "fewshot"
  /\ ret = Returned("__next__", "item")
  /\ Len(emitted) = 1
  /\ Len(firstPass) = 2

\* C7: every few-shot prompt is n_shots exemplar blocks in load order, each
\* with its answer, then one target block for the current item with the
\* answer left open, blocks separated by a blank line; the exemplar blocks are
\* the same for every item of a pass.
C7_FewShotPromptShape ==
  (kind = "fewshot" /\ emitted # <<>>) =>
    /\ Len(few_shot_examples) = n_shots
    /\ \A i \in 1..Len(emitted) :
         emitted[i].prompt =
           Join("\n\n", [k \in 1..n_shots + 1 |->
                          IF k <= n_shots
                          THEN "<client>\n" \o Process(few_shot_examples[k].instruction,
                                                      few_shot_examples[k].inputs).text
                               \o "\n<client>\n<model>\n(" \o few_shot_examples[k].output
                               \o ")\n<model>"
                          ELSE "<client>\n" \o Process(data[i].instruction, data[i].inputs).text
                               \o "\n<client>\n<model>"])

\* C27: every yielded item carries the domain of its Record's meta, and the
\* empty string when the Record has a meta without a domain or no meta at
\* all; a next step never fails on a Record that has no domain metadata.
C27_DomainOrEmptyString ==
  LET HasDomain(record) == "meta" \in DOMAIN record /\ "domain" \in DOMAIN record.meta
  IN /\ \A i \in 1..Len(emitted) :
          emitted[i].domain = IF HasDomain(data[i]) THEN data[i].meta.domain ELSE ""
     /\ (ret.op = "__next__" /\ ret.result \in GenErrors) => HasDomain(data[current_index + 1])

\* C29: a few-shot load_data that fails for want of records leaves the
\* generator as it was: its iterable sequence, its exemplars and its cursor
\* are those of before the call, so the rejected records are never yielded.
C29_FailedLoadChangesNothing ==
  [][ret' = Returned("load_data", "ValueError") =>
       UNCHANGED <<data, few_shot_examples, current_index>>]_vars

(***************************************************************************)
(* Properties of the parsers (specification SpecParse).                    *)
(***************************************************************************)
\* C8: parse never raises, for either parser, any text and any configuration
\* (any pattern and group number, a group outside the match included).
C8_ParseNeverRaises == parsed.status # "raised"

\* C9: MultipleChoiceParser.parse returns the letter captured by the earliest
\* pattern of the list that matches; the result is the empty string or one
\* letter of the allow-listed alphabet, upper-cased unless case-sensitive.
C9_EarliestPatternAllowedLetter ==
  (parser.class = "MultipleChoiceParser" /\ parsed.status # "pending") =>
    LET cs == parser.case_sensitive
        allowed == AllowedOptions(parser.allowed_options, cs)
        hits == {k \in 1..NumPatterns : Search(k, raw_response, allowed, cs).matched}
        first == CHOOSE k \in hits : \A j \in hits : k <= j
    IN /\ parsed.status = "returned"
       /\ IF hits = {} THEN parsed.value = <<>>
          ELSE /\ Len(parsed.value) = 1
               /\ CharMatches(parsed.value[1], Search(first, raw_response, allowed, cs).group1, cs)
       /\ \/ parsed.value = <<>>
          \/ /\ Len(parsed.value) = 1
             /\ InSeq(parsed.value[1], allowed)

\* C10: with default settings parse maps "The answer is (C)." to "C",
\* "no discernible letter here" to "" and "b." to "B".
C10_DocumentedExamples ==
  (parser = DefaultMultipleChoiceParser /\ parsed.status # "pending") =>
    /\ raw_response = TheAnswerIsC => parsed = Returns(<<"C">>)
    /\ raw_response = NoDiscernibleLetter => parsed = Returns(<<>>)
    /\ raw_response = LowerBDot => parsed = Returns(<<"B">>)

C10_Witness ==
  /\ parser = DefaultMultipleChoiceParser
  /\ raw_response = LowerBDot
  /\ parsed = Returns(<<"B">>)

\* C11: a response that holds a parenthesized letter of the alphabet anywhere, also
\* right next to other characters, or a letter of the alphabet directly followed by
\* a period, gets a letter from MultipleChoiceParser.parse: an earlier pattern's or
\* that pattern's own, never the empty answer.
C11_ListedPatternKindsRecognised ==
  (parser.class = "MultipleChoiceParser" /\ parsed.status = "returned") =>
    LET t == raw_response
        allowed == AllowedOptions(parser.allowed_options, parser.case_sensitive)
        cs == parser.case_sensitive
        parenthesized == \E q \in 1..Len(t) :
                           /\ t[q] = "(" /\ InClass(t, q + 1, allowed, cs)
                           /\ q + 2 <= Len(t) /\ t[q + 2] = ")"
        beforePeriod == \E q \in 1..Len(t) :
                          InClass(t, q, allowed, cs) /\ q + 1 <= Len(t) /\ t[q + 1] = "."
    IN (parenthesized \/ beforePeriod) => parsed.value # <<>>

\* C12: on a non-empty text RegexParser.parse returns the requested group trimmed
\* when the pattern matches and the pattern has that group, and on no match the
\* whole text trimmed with fallback_to_full and the empty string without it.
C12_RegexGroupOrFallback ==
  (parser.class = "RegexParser" /\ parsed.status # "pending" /\ raw_response # <<>>) =>
    LET match == RegexSearchFrom(parser.pattern, raw_response, 1)
    IN /\ (match.matched /\ parser.group \in 0..Len(parser.pattern)) =>
            /\ parsed.status = "returned"
            /\ parser.group \in {0, match.alt} =>
                  parsed.value = Strip(parser.pattern[match.alt])
       /\ ~match.matched =>
            parsed = Returns(IF parser.fallback_to_full THEN Strip(raw_response) ELSE <<>>)


(***************************************************************************)
(* Properties of the metrics and the evaluators (specification SpecEval).  *)
(***************************************************************************)
CalculateReturned == call = "calculate" /\ evaluation.status = "returned"
\* the results of the handed list that carry a true is_correct flag
FlaggedCorrect(result_list) ==
  {k \in 1..Len(result_list) :
     "is_correct" \in DOMAIN result_list[k] /\ result_list[k].is_correct = TRUE}

\* C13: for every metric, calculate on the empty list returns a report with the
\* keys a call on a non-empty list returns, and with total_examples = 0.
C13_EmptyListSameShape ==
  CalculateReturned =>
    LET empty == Calculate(metric, <<>>).report
    IN /\ handed # <<>> => DOMAIN evaluation.value = DOMAIN empty
       /\ (handed = <<>> /\ "total_examples" \in DOMAIN evaluation.value) =>
            evaluation.value.total_examples = 0

\* C14: AccuracyMetric reports total_examples = number of results, correct_answers =
\* number of results with a true is_correct flag (a missing flag is false), accuracy
\* = correct_answers / total_examples, zeros on the empty list, and leaves the
\* results as they were.
C14_AccuracyCountsFlags ==
  (CalculateReturned /\ metric = AccuracyMetric) =>
    LET report == evaluation.value
    IN /\ report.total_examples = Len(handed)
       /\ report.correct_answers = Cardinality(FlaggedCorrect(handed))
       /\ report.correct_answers >= 0 /\ report.correct_answers <= report.total_examples
       /\ report.accuracy.num * report.total_examples
            = report.correct_answers * report.accuracy.den
       /\ handed = <<>> =>
            report = [total_examples |-> 0, correct_answers |-> 0, accuracy |-> Zero]
       /\ processed_results = handed

C14_Witness ==
  /\ CalculateReturned /\ metric = AccuracyMetric
  /\ Len(handed) = 2
  /\ "is_correct" \notin DOMAIN handed[1]
  /\ FlaggedCorrect(handed) = {2}
  /\ evaluation.value.correct_answers = 1
  /\ evaluation.value.accuracy = [num |-> 1, den |-> 2]

\* the orders a list can be handed over in
Reorderings(result_list) ==
  {[k \in 1..Len(result_list) |-> result_list[pi[k]]] :
     pi \in {f \in [1..Len(result_list) -> 1..Len(result_list)] :
               \A i, j \in 1..Len(result_list) : f[i] = f[j] => i = j}}
GroupCounts(domain_stats) ==
  [domain \in DOMAIN domain_stats |->
     [total |-> domain_stats[domain].total, correct |-> domain_stats[domain].correct]]
RECURSIVE SumOfTotals(_, _)
SumOfTotals(domain_stats, domains) ==
  IF domains = {} THEN 0
  ELSE LET domain == CHOOSE d \in domains : TRUE
       IN domain_stats[domain].total + SumOfTotals(domain_stats, domains \ {domain})
\* the results that belong to a group
InGroup(result_list, domain) ==
  {k \in 1..Len(result_list) :
     \/ "domain" \in DOMAIN result_list[k] /\ result_list[k].domain = domain
     \/ "domain" \notin DOMAIN result_list[k] /\ domain = "unknown"}

\* C15: DomainAccuracyMetric gives every reordering of the results the same
\* {total, correct} per domain; each result is counted in the group of its domain,
\* or "unknown" when it has none, so the totals add up to the number of results
\* and correct <= total in every group.
C15_DomainGroupingOrderFree ==
  (CalculateReturned /\ metric = DomainAccuracyMetric) =>
    LET domain_stats == evaluation.value.domain_stats
    IN /\ \A reordered \in Reorderings(handed) :
            GroupCounts(DomainAccuracyCalculate(reordered).domain_stats)
              = GroupCounts(domain_stats)
       /\ \A domain \in DOMAIN domain_stats :
            /\ domain_stats[domain].total = Cardinality(InGroup(handed, domain))
            /\ domain_stats[domain].correct
                 = Cardinality(InGroup(handed, domain) \cap FlaggedCorrect(handed))
            /\ domain_stats[domain].correct <= domain_stats[domain].total
       /\ \A k \in 1..Len(handed) : \E domain \in DOMAIN domain_stats :
            k \in InGroup(handed, domain)
       /\ SumOfTotals(domain_stats, DOMAIN domain_stats) = Len(handed)

C15_Witness ==
  /\ CalculateReturned /\ metric = DomainAccuracyMetric
  /\ Len(handed) = 2
  /\ "domain" \notin DOMAIN handed[1]
  /\ "domain" \in DOMAIN handed[2] /\ handed[2].domain = "law"
  /\ DOMAIN evaluation.value.domain_stats = {"unknown", "law"}

\* the results Exact-match finds correct, by its own comparison of the two answers
MatchedBy(m, result_list) ==
  {k \in 1..Len(result_list) :
     Comparable(m, Get(result_list[k], "parsed_answer", <<>>))
       = Comparable(m, Get(result_list[k], "expected_answer", <<>>))}
AccuracyThenExactMatch == <<AccuracyMetric, DefaultExactMatchMetric>>
ExactMatchThenAccuracy == <<DefaultExactMatchMetric, AccuracyMetric>>
\* a chain of metrics run over one list: a composite metric or a multi-metric evaluator
ChainReturned(metrics) ==
  /\ evaluation.status = "returned"
  /\ \/ call = "calculate" /\ metric = CompositeMetric(metrics)
     \/ call = "evaluate_dataset" /\ evaluator = MultiMetricEvaluator(metrics)

\* C16: ExactMatchMetric.calculate writes its own comparison result to is_correct
\* on every result and to nothing else; in a chain, Accuracy placed after
\* Exact-match counts the written flags and Accuracy placed before it counts the
\* flags as they were handed over.
C16_ExactMatchWritesFlags ==
  /\ (CalculateReturned /\ metric.class = "ExactMatchMetric") =>
       /\ Len(processed_results) = Len(handed)
       /\ \A k \in 1..Len(handed) :
            /\ DOMAIN processed_results[k] = DOMAIN handed[k] \cup {"is_correct"}
            /\ processed_results[k].is_correct = (k \in MatchedBy(metric, handed))
            /\ \A key \in DOMAIN handed[k] \ {"is_correct"} :
                 processed_results[k][key] = handed[k][key]
  /\ ChainReturned(ExactMatchThenAccuracy) =>
       /\ evaluation.value.accuracy_correct_answers
            = Cardinality(MatchedBy(DefaultExactMatchMetric, handed))
       /\ evaluation.value.accuracy_correct_answers = evaluation.value.correct_answers
  /\ ChainReturned(AccuracyThenExactMatch) =>
       /\ evaluation.value.correct_answers = Cardinality(FlaggedCorrect(handed))
       /\ evaluation.value.exactmatch_correct_answers
            = Cardinality(MatchedBy(DefaultExactMatchMetric, handed))

\* the two orders report different Accuracy counts on the list the evaluator built
C16_Witness ==
  /\ call = "evaluate_dataset" /\ ChainReturned(ExactMatchThenAccuracy)
  /\ handed # <<>>
  /\ evaluation.value.accuracy_correct_answers
       # MultiMetricReport(MultiMetricEvaluator(AccuracyThenExactMatch), handed)
           .report.correct_answers
  /\ \E k \in 1..Len(handed) : processed_results[k].is_correct # handed[k].is_correct

\* C17: with the default settings, on a non-empty list whose results all have
\* parsed_answer = expected_answer, non-empty, ExactMatchMetric reports
\* correct_answers = total_examples, accuracy 1.0, and sets is_correct on all.
C17_EqualAnswersAllCorrect ==
  ( /\ CalculateReturned /\ metric = DefaultExactMatchMetric
    /\ handed # <<>>
    /\ \A k \in 1..Len(handed) :
         handed[k].parsed_answer = handed[k].expected_answer
           /\ handed[k].expected_answer # <<>> ) =>
    /\ evaluation.value.total_examples = Len(handed)
    /\ evaluation.value.correct_answers = Len(handed)
    /\ evaluation.value.accuracy = [num |-> 1, den |-> 1]
    /\ \A k \in 1..Len(handed) : processed_results[k].is_correct = TRUE

C17_Witness ==
  /\ CalculateReturned /\ metric = DefaultExactMatchMetric
  /\ Len(handed) = 2
  /\ handed[1].parsed_answer = <<"(", "C", ")", ".">>
  /\ handed[1].expected_answer = <<"(", "C", ")", ".">>
  /\ handed[2].parsed_answer = handed[2].expected_answer /\ handed[2].parsed_answer # <<>>
  /\ "is_correct" \in DOMAIN handed[1] /\ handed[1].is_correct = FALSE
  /\ evaluation.value.correct_answers = 2

\* the constituents of the chain at hand, their names, and the keys each one writes
ChainMetrics == IF call = "calculate" THEN metric.metrics ELSE evaluator.metrics
ChainNames == IF call = "calculate" THEN metric.metric_names ELSE evaluator.metric_names
KeysWritten(i) ==
  {Prefix(i, ChainNames[i]) \o key :
     key \in DOMAIN Calculate(ChainMetrics[i], handed).report}

\* C18: in a composite report the first constituent's keys are unprefixed, the
\* later ones' carry "<name>_", and with pairwise distinct names no two
\* constituents write the same key.
C18_CompositeKeysDisjoint ==
  ( /\ evaluation.status = "returned"
    /\ \/ call = "calculate" /\ metric.class = "CompositeMetric"
       \/ call = "evaluate_dataset" /\ evaluator.class = "MultiMetricEvaluator"
    /\ \A i, j \in 1..Len(ChainNames) : ChainNames[i] = ChainNames[j] => i = j ) =>
    /\ \A i \in 1..Len(ChainMetrics) : KeysWritten(i) \subseteq DOMAIN evaluation.value
    /\ \A i, j \in 1..Len(ChainMetrics) : i # j => KeysWritten(i) \cap KeysWritten(j) = {}

\* C19: evaluate_dataset returns, in detailed_evaluations, one record per input
\* row without an error, in input order and with the row's index, and the
\* metric counts exactly those records.
C19_ErrorRowsDroppedOthersKept ==
  call = "evaluate_dataset" =>
    LET kept == SelectSeq(dataset, LAMBDA r : r.error \in {NoneVal, ""})
    IN /\ evaluation.status = "returned"
       /\ Len(evaluation.value.detailed_evaluations) = Len(kept)
       /\ \A k \in 1..Len(kept) :
            evaluation.value.detailed_evaluations[k].index = kept[k].index
       /\ "total_examples" \in DOMAIN evaluation.value =>
            evaluation.value.total_examples = Len(kept)

\* C20: evaluate_response scores a parse miss, the empty parsed answer, as
\* incorrect whatever the expected output is.
C20_ParseMissIsIncorrect ==
  (call = "evaluate_response" /\ evaluation.status = "returned"
     /\ evaluation.value.parsed_answer = <<>>) =>
    evaluation.value.is_correct = FALSE


\* C28: in the multiple-choice pipeline as wired (expected outputs as the
\* MMLU converter writes them, MultipleChoiceParser, evaluate_response) a
\* response from which the parser extracts the letter of the record's correct
\* option is marked is_correct, in evaluate_response and in the rows
\* evaluate_dataset hands to the metric.
C28_CorrectLetterMarkedCorrect ==
  LET Hit(answers) ==
        \E k \in 1..Len(DefaultAllowedOptions) :
          /\ answers.parsed_answer = <<DefaultAllowedOptions[k]>>
          /\ answers.expected_answer = ConverterOutput(DefaultAllowedOptions[k])
  IN (parser = DefaultMultipleChoiceParser /\ evaluation.status = "returned") =>
       /\ call = "evaluate_response" =>
            (Hit(evaluation.value) => evaluation.value.is_correct)
       /\ call = "evaluate_dataset" =>
            \A k \in 1..Len(handed) : Hit(handed[k]) => handed[k].is_correct

(***************************************************************************)
(* Properties of the prompt strategy (specification SpecStrategy).         *)
(***************************************************************************)
\* C24: process never changes the inputs dict its caller holds: once the call
\* has ended, by returning the prompt or by raising on a placeholder that is
\* missing, the dict has the keys and the values it had when it was passed,
\* and no options key was added to it or changed in it.
C24_InputsNotMutated ==
  processed_prompt # Pending =>
    /\ DOMAIN caller_inputs = DOMAIN passed_inputs
    /\ \A key \in DOMAIN passed_inputs : caller_inputs[key] = passed_inputs[key]

\* a call that raised on inputs with an option but without an options key
C24_Witness ==
  /\ processed_prompt = Raises("KeyError")
  /\ "options" \notin DOMAIN passed_inputs
  /\ OptionKey(1) \in DOMAIN passed_inputs

\* the members of a set of numbers in ascending order
RECURSIVE Ascending(_)
Ascending(S) ==
  IF S = {} THEN <<>>
  ELSE LET least == CHOOSE x \in S : \A y \in S : x <= y
       IN <<least>> \o Ascending(S \ {least})

\* the options field the call is due to build from its inputs
DueOptions(inputs) ==
  LET present == Ascending({k \in 1..Len(LowerLetters) : OptionKey(k) \in DOMAIN inputs})
  IN Join("\n", [n \in 1..Len(present) |->
                   Letters[present[n]] \o ". " \o inputs[OptionKey(present[n])]])

\* what a placeholder of the instruction is due to be replaced with
DueValue(inputs, name) == IF name = "options" THEN DueOptions(inputs) ELSE inputs[name]

Placeholders(instruction) ==
  {instruction[k].field : k \in {n \in 1..Len(instruction) : "field" \in DOMAIN instruction[n]}}

\* C25: the options field is built from the keys option_a..option_j that are
\* in inputs, in letter order with the gaps skipped, one line "<LETTER>. <value>"
\* each; it stands in for the placeholder options whatever value inputs held
\* under that key; and the call raises when the instruction names a
\* placeholder that is neither a key of inputs nor options.
C25_OptionsBuiltAndSubstituted ==
  processed_prompt # Pending =>
    IF Placeholders(caller_instruction) \subseteq DOMAIN passed_inputs \cup {"options"}
    THEN processed_prompt =
           Returns(Join("", [k \in 1..Len(caller_instruction) |->
                              IF "field" \in DOMAIN caller_instruction[k]
                              THEN DueValue(passed_inputs, caller_instruction[k].field)
                              ELSE caller_instruction[k].lit]))
    ELSE processed_prompt.status = "raised"

\* a prompt built from inputs that held an options value and the options a and
\* c but not b
C25_Witness ==
  /\ processed_prompt.status = "returned"
  /\ caller_instruction = <<Field("options")>>
  /\ {"options", OptionKey(1), OptionKey(3)} \subseteq DOMAIN passed_inputs
  /\ OptionKey(2) \notin DOMAIN passed_inputs
  /\ processed_prompt.value = "A. xoption_a\nC. xoption_c"


(***************************************************************************)
(* Properties of construction and configuration (specification SpecConfig). *)
(***************************************************************************)
\* C21: a metric list and a metric-name list of different lengths make
\* CompositeMetric(...), MultiMetricEvaluator(...) and change_metrics raise
\* at once: the call never returns with the lists cut to the shorter one,
\* and a constructor builds no object from them.
C21_MismatchedListsRaise ==
  (/\ call \in {"CompositeMetric", "MultiMetricEvaluator", "change_metrics"}
   /\ ~given.metric_names.none
   /\ Len(given.metrics) # Len(given.metric_names.value)) =>
    /\ evaluation = Raises("ValueError")
    /\ call = "CompositeMetric" => metric = NoMetric
    /\ call = "MultiMetricEvaluator" => evaluator = NoEvaluator

\* change_metrics with two metrics and one name has raised
C21_Witness ==
  /\ call = "change_metrics"
  /\ evaluation = Raises("ValueError")
  /\ Len(given.metrics) = 2
  /\ ~given.metric_names.none /\ Len(given.metric_names.value) = 1

\* the components of a path with each ".." taken against the one before it
RECURSIVE Resolved(_, _)
Resolved(parts, done) ==
  IF parts = <<>> THEN done
  ELSE IF parts[1] = ".." /\ done # <<>> /\ done[Len(done)] # ".."
    THEN Resolved(Tail(parts), SubSeq(done, 1, Len(done) - 1))
    ELSE Resolved(Tail(parts), Append(done, parts[1]))

\* the file at path lies in the directory dir or below it
Inside(path, dir) ==
  LET file_parts == Resolved(path.parts, <<>>)
      dir_parts == Resolved(dir.parts, <<>>)
  IN /\ path.absolute = dir.absolute
     /\ Len(file_parts) > Len(dir_parts)
     /\ SubSeq(file_parts, 1, Len(dir_parts)) = dir_parts

\* C22: save_evaluation on an evaluator without an output directory raises
\* and writes no file; with a directory it writes exactly one file, and that
\* file lies inside the directory.
C22_SaveNeedsDirectoryWritesInside ==
  call = "save_evaluation" =>
    IF Falsy(output_dir)
    THEN evaluation = Raises("ValueError") /\ saved = {}
    ELSE /\ evaluation.status = "returned"
         /\ Cardinality(saved) = 1
         /\ \A path \in saved : Inside(path, output_dir.value)

\* C30: whatever constructor, change_metrics, add_metric and remove_metric
\* calls a MultiMetricEvaluator has seen, those that raised included, its
\* metrics and its metric_names have the same length; a call that raises
\* leaves both lists as they were; and evaluate_dataset reports every
\* configured metric under the prefix of its own name.
C30_MetricsAndNamesStayPaired ==
  [][evaluator'.class = "MultiMetricEvaluator" =>
       /\ Len(evaluator'.metrics) = Len(evaluator'.metric_names)
       /\ (/\ call' \in {"change_metrics", "add_metric", "remove_metric"}
           /\ evaluation'.status = "raised") => evaluator' = evaluator
       /\ (call' = "evaluate_dataset" /\ evaluation'.status = "returned") =>
            \A i \in 1..Len(evaluator'.metrics) :
              DOMAIN Prefixed(Prefix(i, evaluator'.metric_names[i]),
                              Calculate(evaluator'.metrics[i], handed').report)
                \subseteq DOMAIN evaluation'.value]_vars

====
